---------------------------- MODULE Spec2Model ----------------------------
(***************************************************************************)
(* Model of NmapExecutor.execute (src/src/NmapExecutor.node.ts): the       *)
(* per-item pipeline derive -> build -> run -> (retry) -> summarize ->     *)
(* record -> emit, and the helper makeSummary.                             *)
(*                                                                         *)
(* Strings the code concatenates or searches (flags, command lines,        *)
(* stderr, error messages) are sequences of one-character strings, so that *)
(* String.includes and the regular expression are computed, not assumed.   *)
(* Values the code only compares for equality (scanMode, outputFormat,     *)
(* attribute values of the parsed document) are plain strings.             *)
(***************************************************************************)
EXTENDS Integers, Sequences, FiniteSets, TLC

\* Longest batch of input items explored.
MaxItems == 2

---------------------------------------------------------------------------
\* String literals of the source, as character sequences.

\* "-T4 -F"
S_fast == <<"-", "T", "4", " ", "-", "F">>
\* "-T4 -p1-65535"
S_full == <<"-", "T", "4", " ", "-", "p", "1", "-", "6", "5", "5", "3", "5">>
\* "-sV"
S_version == <<"-", "s", "V">>
\* "-O"
S_os == <<"-", "O">>
\* "--script "
S_script == <<"-", "-", "s", "c", "r", "i", "p", "t", " ">>
\* "-oX -"
S_oX == <<"-", "o", "X", " ", "-">>
\* "-oG -"
S_oG == <<"-", "o", "G", " ", "-">>
\* "-Pn"
S_Pn == <<"-", "P", "n">>
\* " -Pn"
S_spPn == <<" ", "-", "P", "n">>
\* "nmap"
S_nmap == <<"n", "m", "a", "p">>
\* "0 hosts up"
S_0hostsUp == <<"0", " ", "h", "o", "s", "t", "s", " ", "u", "p">>
\* "Failed to resolve"
S_failedResolve == <<"F", "a", "i", "l", "e", "d", " ", "t", "o", " ", "r", "e", "s", "o", "l", "v", "e">>
\* "Nmap execution failed"
S_execFailed == <<"N", "m", "a", "p", " ", "e", "x", "e", "c", "u", "t", "i", "o", "n", " ", "f", "a", "i", "l", "e", "d">>
\* "host" and "down", the two literals of /host.*down/i
S_host == <<"h", "o", "s", "t">>
S_down == <<"d", "o", "w", "n">>
\* 'First scan failed, retried with -Pn.' and 'Scan failed even after
\* retrying with -Pn.' are only stored, never searched: plain strings.
MsgRetried == "First scan failed, retried with -Pn."
MsgRetryFailed == "Scan failed even after retrying with -Pn."

\* Input strings used by the explored requests and subprocess outcomes.
\* "/o/nmap"
S_optNmap == <<"/", "o", "/", "n", "m", "a", "p">>
\* "-A -Pn"
S_customPn == <<"-", "A", " ", "-", "P", "n">>
\* "h1", "h2"
S_h1 == <<"h", "1">>
S_h2 == <<"h", "2">>
\* "http-title", "vuln" (two of NSE_SCRIPTS)
S_httpTitle == <<"h", "t", "t", "p", "-", "t", "i", "t", "l", "e">>
S_vuln == <<"v", "u", "l", "n">>
\* "Host seems Down"
S_hostSeemsDown == <<"H", "o", "s", "t", " ", "s", "e", "e", "m", "s", " ", "D", "o", "w", "n">>
\* "host\ndown"
S_hostNLdown == <<"h", "o", "s", "t", "\n", "d", "o", "w", "n">>
\* "connection refused"
S_refused == <<"c", "o", "n", "n", "e", "c", "t", "i", "o", "n", " ", "r", "e", "f", "u", "s", "e", "d">>
\* "Command failed"
S_cmdFailed == <<"C", "o", "m", "m", "a", "n", "d", " ", "f", "a", "i", "l", "e", "d">>

---------------------------------------------------------------------------
\* JavaScript values.

\* null / an unassigned `let`
Null == [null |-> TRUE]

\* String.prototype.includes
Includes(s, t) ==
    \E k \in 0..(Len(s) - Len(t)) : SubSeq(s, k + 1, k + Len(t)) = t

\* Case folding of the `i` flag, for the letters of "host" and "down".
ToLower(c) ==
    CASE c = "H" -> "h" [] c = "O" -> "o" [] c = "S" -> "s" [] c = "T" -> "t"
      [] c = "D" -> "d" [] c = "W" -> "w" [] c = "N" -> "n" [] OTHER -> c

\* the literal `lit` stands at position `pos` of s, letters folded
FoldedAt(s, pos, lit) ==
    /\ pos + Len(lit) - 1 <= Len(s)
    /\ \A j \in 1..Len(lit) : ToLower(s[pos + j - 1]) = lit[j]

\* s.match(/host.*down/i): "host", then any run of characters other than a
\* line terminator, then "down", letters compared case-insensitively.
MatchHostDown(s) ==
    \E a \in 1..Len(s) :
        /\ FoldedAt(s, a, S_host)
        /\ \E b \in (a + 4)..Len(s) :
              /\ FoldedAt(s, b, S_down)
              /\ \A k \in (a + 4)..(b - 1) : s[k] # "\n"

\* Array.prototype.join(',')
RECURSIVE Join(_)
Join(names) ==
    IF Len(names) = 0 THEN <<>>
    ELSE IF Len(names) = 1 THEN names[1]
    ELSE names[1] \o <<",">> \o Join(Tail(names))

---------------------------------------------------------------------------
\* Flag derivation and command building (execute, lines 146-163).

\* lines 146-155; a scanMode outside the six options leaves flags = ''.
DeriveFlags(req) ==
    CASE req.scanMode = "fast" -> S_fast
      [] req.scanMode = "full" -> S_full
      [] req.scanMode = "version" -> S_version
      [] req.scanMode = "os" -> S_os
      [] req.scanMode = "custom" -> req.flags
      [] req.scanMode = "nse" ->
            IF Len(req.nseScripts) # 0
            THEN S_script \o Join(req.nseScripts) ELSE <<>>
      [] OTHER -> <<>>

\* the two format flags exchanged
FormatFlag_exchanged(outputFormat) ==
    CASE outputFormat = "xml" -> S_oG
      [] outputFormat = "grep" -> S_oX
      [] OTHER -> <<>>

\* lines 157-159
FormatFlag(outputFormat) ==
    CASE outputFormat = "xml" -> S_oX
      [] outputFormat = "grep" -> S_oG
      [] OTHER -> <<>>

\* the template `"${nmapPath}" ${flags} ${formatFlag} "${target}"`
\* (lines 163 and 207)
CommandLine(nmapPath, fl, formatFl, target) ==
    <<"\"">> \o nmapPath \o <<"\"", " ">> \o fl \o <<" ">> \o formatFl
        \o <<" ", "\"">> \o target \o <<"\"">>

\* the override put in front of the flags instead of appended
ResilientFlags_prepended(fl) == S_Pn \o <<" ">> \o fl

\* line 206
ResilientFlags(fl) == fl \o S_spPn

---------------------------------------------------------------------------
\* The Process Runner (runNmap, lines 166-190).

\* `Number(getNodeParameter('timeout')) || 60` (line 143)
DefaultTimeout == 60
TimeoutSeconds(req) == IF req.timeout = 0 THEN DefaultTimeout ELSE req.timeout

\* `getNodeParameter('nmapPath') || 'nmap'` (line 144)
NmapPath(req) == IF req.nmapPath = <<>> THEN S_nmap ELSE req.nmapPath

\* What child_process.exec hands to its callback: error is null exactly when
\* the child exited with status 0 before the timeout; otherwise an Error
\* whose message is `emsg` (killed is set when the timeout fired).
ExecCallback(kind, emsg, stdout, stderr) ==
    [kind |-> kind,
     error |-> IF kind = "exit0" THEN Null
               ELSE [message |-> emsg, killed |-> (kind = "timeout")],
     stdout |-> stdout,
     stderr |-> stderr]

\* runNmap that rejects whenever the child wrote to stderr, instead of
\* testing the callback's error argument.
RunNmap_stderrFails(cmdToRun, req, fl, ev) ==
    IF ev.stderr # <<>> \/ ev.error # Null
    THEN [settled |-> "rejected",
          value |-> [error |-> TRUE,
                     message |-> S_execFailed,
                     details |-> IF ev.stderr # <<>> THEN ev.stderr
                                 ELSE ev.error.message,
                     cmd |-> cmdToRun,
                     stdout |-> ev.stdout,
                     stderr |-> ev.stderr]]
    ELSE [settled |-> "resolved",
          value |-> [error |-> FALSE,
                     target |-> req.target,
                     cmd |-> cmdToRun,
                     output |-> ev.stdout,
                     format |-> req.outputFormat,
                     flags |-> fl]]

\* The promise runNmap returns, settled by the exec callback `ev`
\* (lines 168-188).  `fl` is the `flags` variable the closure captures.
RunNmap(cmdToRun, req, fl, ev) ==
    IF ev.error # Null
    THEN [settled |-> "rejected",
          value |-> [error |-> TRUE,
                     message |-> S_execFailed,
                     details |-> IF ev.stderr # <<>> THEN ev.stderr
                                 ELSE ev.error.message,
                     cmd |-> cmdToRun,
                     stdout |-> ev.stdout,
                     stderr |-> ev.stderr]]
    ELSE [settled |-> "resolved",
          value |-> [error |-> FALSE,
                     target |-> req.target,
                     cmd |-> cmdToRun,
                     output |-> ev.stdout,
                     format |-> req.outputFormat,
                     flags |-> fl]]

---------------------------------------------------------------------------
\* The Resiliency Controller (lines 194-229).

\* the classification also searching the captured stdout
DownMsg_stdout(err) ==
    \/ /\ "details" \in DOMAIN err
       /\ err.details # <<>>
       /\ \/ Includes(err.details, S_0hostsUp)
          \/ Includes(err.details, S_failedResolve)
          \/ MatchHostDown(err.details)
    \/ Includes(err.stdout, S_0hostsUp)

\* lines 196-201: err.details, when a non-empty string, searched for the
\* three unreachable patterns.
DownMsg(err) ==
    /\ "details" \in DOMAIN err
    /\ err.details # <<>>
    /\ \/ Includes(err.details, S_0hostsUp)
       \/ Includes(err.details, S_failedResolve)
       \/ MatchHostDown(err.details)

\* line 202
AlreadyPn(fl) == Includes(fl, S_Pn)

\* line 203
ShouldRetry(err, fl) == DownMsg(err) /\ ~AlreadyPn(fl)

\* lines 210-214: the retry resolved
RetrySuccess(result, err) ==
    [resiliency |-> [triggered |-> TRUE, msg |-> MsgRetried,
                     firstError |-> err]] @@ result

\* the retry's failure discarded in favour of the first one
RetryFailure_keepsFirst(err2, err) ==
    [resiliency |-> [triggered |-> TRUE, msg |-> MsgRetryFailed,
                     firstError |-> err]] @@ err

\* lines 217-224: the retry rejected with err2
RetryFailure(err2, err) ==
    [resiliency |-> [triggered |-> TRUE, msg |-> MsgRetryFailed,
                     firstError |-> err]] @@ err2

\* a note attached although no retry was made
NoRetryResult_noted(err) ==
    [resiliency |-> [triggered |-> FALSE, msg |-> MsgRetryFailed,
                     firstError |-> err]] @@ err

\* line 228: `typeof err === 'object' ? err : {...}`; runNmap only ever
\* rejects with the object of lines 170-177.
NoRetryResult(err) == err

---------------------------------------------------------------------------
\* The Summary Extractor (lines 232-247 and makeSummary, lines 277-321).
\*
\* A parsed document is the tree xml2js builds with explicitArray:false: an
\* element is a record, its attributes are under `attr` (the `$` key), a
\* repeated child element is an array, written [array |-> <<...>>], and a
\* child that occurs once is the element itself.

Has(r, f) == f \in DOMAIN r
IsArray(v) == Has(v, "array")

\* `x || dflt` for a string x
OrElse(x, dflt) == IF x = "" THEN dflt ELSE x

\* `el?.$.name || dflt`: undefined when el is absent, a TypeError (see
\* SummaryThrows) when el has no attributes.
AttrOr(r, el, name, dflt) ==
    IF Has(r, el) /\ Has(r[el], "attr") /\ Has(r[el].attr, name)
    THEN OrElse(r[el].attr[name], dflt) ELSE dflt

\* p.state.$.state === 'open'
IsOpen(p) == Has(p.state.attr, "state") /\ p.state.attr.state = "open"

\* Array.prototype.filter(p => p.state.$.state === 'open')
RECURSIVE FilterOpen(_)
FilterOpen(ports) ==
    IF Len(ports) = 0 THEN <<>>
    ELSE IF IsOpen(ports[1]) THEN <<ports[1]>> \o FilterOpen(Tail(ports))
    ELSE FilterOpen(Tail(ports))

\* `host.ports?.port` is defined
HasPorts(host) == Has(host, "ports") /\ Has(host.ports, "port")

\* only a list of ports is looked at
OpenPorts_listOnly(host) ==
    IF ~HasPorts(host) THEN <<>>
    ELSE LET ports == host.ports.port IN
         IF IsArray(ports) THEN FilterOpen(ports.array) ELSE <<>>

\* lines 283-288
OpenPorts(host) ==
    IF ~HasPorts(host) THEN <<>>
    ELSE LET ports == host.ports.port IN
         IF IsArray(ports) THEN FilterOpen(ports.array)
         ELSE IF Has(ports, "state") /\ IsOpen(ports) THEN <<ports>>
         ELSE <<>>

\* only a list of scripts is looked at
Scripts_listOnly(p) ==
    IF ~Has(p, "script") THEN <<>>
    ELSE IF IsArray(p.script) THEN p.script.array ELSE <<>>

\* line 300
Scripts(p) ==
    IF ~Has(p, "script") THEN <<>>
    ELSE IF IsArray(p.script) THEN p.script.array ELSE <<p.script>>

\* lines 301-307, for one port
ScriptEntries(p) ==
    [k \in 1..Len(Scripts(p)) |->
        [port |-> p.attr.portid,
         script |-> Scripts(p)[k].attr.id,
         output |-> Scripts(p)[k].attr.output]]

\* lines 296-310
RECURSIVE NseResults(_)
NseResults(openPorts) ==
    IF Len(openPorts) = 0 THEN <<>>
    ELSE ScriptEntries(openPorts[1]) \o NseResults(Tail(openPorts))

\* lines 289-295
PortList(openPorts) ==
    [k \in 1..Len(openPorts) |->
        [port |-> openPorts[k].attr.portid,
         service |-> AttrOr(openPorts[k], "service", "name", ""),
         product |-> AttrOr(openPorts[k], "service", "product", ""),
         version |-> AttrOr(openPorts[k], "service", "version", ""),
         extra |-> AttrOr(openPorts[k], "service", "extrainfo", "")]]

\* A property read on undefined or null inside makeSummary's try block.
PortThrows(p) ==
    \/ ~Has(p, "state")
    \/ ~Has(p.state, "attr")

OpenPortThrows(p) ==
    \/ ~Has(p, "attr")
    \/ Has(p, "service") /\ ~Has(p.service, "attr")
    \/ \E k \in 1..Len(Scripts(p)) : ~Has(Scripts(p)[k], "attr")

\* lines 284-288 read p.state.$ of every listed port, or ports.state?.$
FilterThrows(host) ==
    /\ HasPorts(host)
    /\ LET ports == host.ports.port IN
       IF IsArray(ports)
       THEN \E k \in 1..Len(ports.array) : PortThrows(ports.array[k])
       ELSE Has(ports, "state") /\ ~Has(ports.state, "attr")

SummaryThrows(parsed) ==
    \/ parsed = Null
    \/ ~Has(parsed, "nmaprun")
    \/ ~Has(parsed.nmaprun, "host")
    \/ LET host == parsed.nmaprun.host IN
       \/ Has(host, "status") /\ ~Has(host.status, "attr")
       \/ Has(host, "address") /\ ~Has(host.address, "attr")
       \/ FilterThrows(host)
       \/ /\ ~FilterThrows(host)
          /\ \E k \in 1..Len(OpenPorts(host)) :
                 OpenPortThrows(OpenPorts(host)[k])

TypeErrorText == "TypeError: Cannot read properties of undefined"

\* makeSummary (lines 277-321)
makeSummary(parsed) ==
    IF SummaryThrows(parsed)
    THEN [error |-> TRUE, details |-> TypeErrorText]
    ELSE LET host == parsed.nmaprun.host
             openPorts == OpenPorts(host)
         IN [address |-> AttrOr(host, "address", "addr", "unknown"),
             status |-> AttrOr(host, "status", "state", "unknown"),
             openPorts |-> PortList(openPorts),
             totalOpen |-> Len(openPorts),
             vulns |-> NseResults(openPorts)]

\* Documents nmap can print with -oX -, as xml2js parses them.
PortSsh ==
    [attr |-> [protocol |-> "tcp", portid |-> "22"],
     state |-> [attr |-> [state |-> "open"]],
     service |-> [attr |-> [name |-> "ssh", product |-> "OpenSSH",
                            version |-> "8.2"]],
     script |-> [attr |-> [id |-> "ssh-hostkey", output |-> "2048 aa:bb"]]]

PortHttp ==
    [attr |-> [protocol |-> "tcp", portid |-> "80"],
     state |-> [attr |-> [state |-> "closed"]],
     service |-> [attr |-> [name |-> "http"]],
     script |-> [attr |-> [id |-> "http-title", output |-> "Site"]]]

PortHttps ==
    [attr |-> [protocol |-> "tcp", portid |-> "443"],
     state |-> [attr |-> [state |-> "open"]],
     script |-> [array |->
        << [attr |-> [id |-> "http-title", output |-> "Login"]],
           [attr |-> [id |-> "ssl-heartbleed", output |-> "VULNERABLE"]] >>]]

HostOf(ports) ==
    [status |-> [attr |-> [state |-> "up"]],
     address |-> [attr |-> [addr |-> "10.0.0.1"]],
     ports |-> ports]

\* several <port> elements
DocPortList ==
    [nmaprun |-> [host |->
        HostOf([port |-> [array |-> <<PortSsh, PortHttp, PortHttps>>]])]]
\* exactly one <port> element, open
DocOnePort == [nmaprun |-> [host |-> HostOf([port |-> PortSsh])]]
\* <ports/> without a <port>
DocNoPorts == [nmaprun |-> [host |-> HostOf([extraports |-> "filtered"])]]
\* a run that found no host: <nmaprun> has no <host> child
DocNoHost == [nmaprun |-> [runstats |-> "0 up"]]

\* The payloads (stdout of the subprocess) the documents are parsed from.
XmlPortList == <<"<nmaprun>", "<host>", "<port 22>", "<port 80>", "<port 443>">>
XmlOnePort == <<"<nmaprun>", "<host>", "<port 22>">>
XmlNoPorts == <<"<nmaprun>", "<host>", "<ports/>">>
XmlNoHost == <<"<nmaprun>", "<runstats/>">>
\* cut off in the middle of a tag
XmlTruncated == <<"<nmaprun>", "<ho">>

\* xml2js parseStringPromise(text, {explicitArray: false}) (line 241):
\* resolves with the tree (null for blank input), rejects on malformed XML.
ParseXml(text) ==
    CASE text = XmlPortList -> [settled |-> "resolved", value |-> DocPortList]
      [] text = XmlOnePort -> [settled |-> "resolved", value |-> DocOnePort]
      [] text = XmlNoPorts -> [settled |-> "resolved", value |-> DocNoPorts]
      [] text = XmlNoHost -> [settled |-> "resolved", value |-> DocNoHost]
      [] text = <<>> -> [settled |-> "resolved", value |-> Null]
      [] OTHER -> [settled |-> "rejected",
                   value |-> "Error: Unexpected end or non-XML input"]

\* the condition without the test of the output format
NeedsSummary_anyFormat(req, result) ==
    /\ req.smartResult
    /\ ~result.error
    /\ Has(result, "output")

\* lines 234-239
NeedsSummary(req, result) ==
    /\ req.smartResult
    /\ ~result.error
    /\ req.outputFormat = "xml"
    /\ Has(result, "output")

\* lines 240-246: the values of `parsed` and `summary` after the try/catch
Summarize(output) ==
    LET p == ParseXml(output) IN
    IF p.settled = "resolved"
    THEN [parsed |-> p.value, summary |-> makeSummary(p.value)]
    ELSE [parsed |-> Null, summary |-> [error |-> TRUE, details |-> p.value]]

---------------------------------------------------------------------------
\* The History Recorder (lines 249-261) and the emitted record (263-269).

\* the record without the spread of line 258
HistoryObj_noResiliency(now, req, fl, sum, result) ==
    LET base == [timestamp |-> now, target |-> req.target, flags |-> fl,
                 format |-> req.outputFormat, summary |-> sum]
    IN IF result.error THEN [error |-> result] @@ base ELSE base

\* lines 251-259
HistoryObj(now, req, fl, sum, result) ==
    LET base == [timestamp |-> now, target |-> req.target, flags |-> fl,
                 format |-> req.outputFormat, summary |-> sum]
        withError == IF result.error THEN [error |-> result] @@ base
                     ELSE base
    IN IF Has(result, "resiliency")
       THEN [resiliency |-> result.resiliency] @@ withError
       ELSE withError

\* the summary spread into the record (`...summary`) instead of stored under
\* its key, so that an error marker overwrites the outcome's error field
OutputJson_spreadSummary(req, result, prs, sum) ==
    LET withParsed == IF req.smartResult /\ prs # Null
                      THEN [parsed |-> prs] @@ result ELSE result
    IN IF req.smartResult /\ sum # Null
       THEN sum @@ ([summary |-> sum] @@ withParsed) ELSE withParsed

\* lines 264-268
OutputJson(req, result, prs, sum) ==
    LET withParsed == IF req.smartResult /\ prs # Null
                      THEN [parsed |-> prs] @@ result ELSE result
    IN IF req.smartResult /\ sum # Null
       THEN [summary |-> sum] @@ withParsed ELSE withParsed

\* The members JSON.stringify writes for a history object, in insertion
\* order; a key the object does not have is not written.
HistoryKeys ==
    <<"timestamp", "target", "flags", "format", "summary", "error",
      "resiliency">>

RECURSIVE Members(_, _)
Members(obj, keys) ==
    IF Len(keys) = 0 THEN <<>>
    ELSE (IF Has(obj, keys[1])
          THEN << [key |-> keys[1], value |-> obj[keys[1]]] >> ELSE <<>>)
         \o Members(obj, Tail(keys))

\* line 260: JSON.stringify(historyObj) + '\n'
HistoryLine(obj) == [json |-> Members(obj, HistoryKeys), eol |-> "\n"]

---------------------------------------------------------------------------
\* Inputs: the requests the host runtime supplies (getNodeParameter, lines
\* 138-144, 151, 153) and the ways a subprocess can end.

Request(target, scanMode, fl, scripts, format, smart, save, timeout, binary) ==
    [target |-> target, scanMode |-> scanMode, flags |-> fl,
     nseScripts |-> scripts, outputFormat |-> format, smartResult |-> smart,
     saveHistory |-> save, timeout |-> timeout, nmapPath |-> binary]

Requests ==
    << Request(S_h1, "fast", <<>>, <<>>, "text", TRUE, TRUE, 0, <<>>),
       Request(S_h2, "nse", <<>>, <<S_httpTitle>>, "xml", TRUE, TRUE, 30, S_nmap),
       Request(S_h1, "custom", S_customPn, <<>>, "xml", TRUE, FALSE, 60, S_nmap),
       Request(S_h2, "full", <<>>, <<>>, "grep", TRUE, TRUE, 60, S_nmap),
       Request(S_h1, "custom", <<>>, <<>>, "xml", FALSE, TRUE, 60, S_nmap),
       Request(S_h2, "nse", <<>>, <<>>, "xml", TRUE, FALSE, 60, S_optNmap),
       Request(S_h1, "version", <<>>, <<>>, "text", FALSE, FALSE, 60, S_nmap),
       Request(S_h2, "os", <<>>, <<>>, "xml", TRUE, TRUE, 60, S_nmap),
       Request(S_h1, "udp", <<>>, <<>>, "xml", TRUE, TRUE, 60, S_nmap),
       Request(S_h2, "nse", <<>>, <<S_vuln, S_httpTitle>>, "grep", FALSE, TRUE, 60, S_nmap) >>

\* The batches explored: every run of at most MaxItems consecutive requests
\* of the list above (cyclically), starting anywhere.
Batch(start, n) ==
    [k \in 1..n |-> Requests[((start + k - 2) % Len(Requests)) + 1]]

Batches == { Batch(start, n) : start \in 1..Len(Requests), n \in 0..MaxItems }

\* Ways the first subprocess of an item can end.
ProcEvents ==
    { ExecCallback("exit0", <<>>, XmlPortList, <<>>),
      ExecCallback("exit0", <<>>, XmlNoHost, <<>>),
      ExecCallback("exit0", <<>>, XmlTruncated, <<>>),
      ExecCallback("exit0", <<>>, <<>>, <<>>),
      ExecCallback("exit0", <<>>, S_0hostsUp, S_failedResolve),
      ExecCallback("nonzero", S_cmdFailed, <<>>, S_0hostsUp),
      ExecCallback("nonzero", S_cmdFailed, S_0hostsUp, S_refused),
      ExecCallback("nonzero", S_cmdFailed, <<>>, S_failedResolve),
      ExecCallback("timeout", S_hostSeemsDown, XmlTruncated, <<>>),
      ExecCallback("spawn", S_cmdFailed, <<>>, S_hostNLdown) }

\* Ways the retry subprocess can end.
RetryEvents ==
    { ExecCallback("exit0", <<>>, XmlPortList, <<>>),
      ExecCallback("exit0", <<>>, XmlTruncated, <<>>),
      ExecCallback("nonzero", S_cmdFailed, <<>>, S_0hostsUp) }

---------------------------------------------------------------------------
\* State of one call of execute.

VARIABLES
    items,            \* this.getInputData() with each item's parameters
    i,                \* loop index (1-based)
    pc,               \* where execute is: loop, first, retry, summarize,
                      \* record, emit, done (returned), threw (rejected)
    flags,            \* let flags
    formatFlag,       \* let formatFlag
    cmd,              \* let cmd
    resilientCmd,     \* const resilientCmd
    resiliencyTried,  \* let resiliencyTried
    err,              \* the rejection caught at line 194
    scanResult,       \* let scanResult
    parsed,           \* let parsed
    summary,          \* let summary
    outputs,          \* const outputs
    history,          \* lines of nmap-history.jsonl
    procs,            \* per item, the subprocesses exec created for it
    now               \* the clock new Date() reads

vars ==
    <<items, i, pc, flags, formatFlag, cmd, resilientCmd, resiliencyTried,
      err, scanResult, parsed, summary, outputs, history, procs, now>>

req == items[i]

\* exec(cmdToRun, {timeout: timeout * 1000}, callback) (line 168)
MsPerSecond == 1000
Spawn(running, cmdToRun) ==
    [running EXCEPT ![i] =
        Append(@, [cmd |-> cmdToRun,
                   timeout |-> TimeoutSeconds(req) * MsPerSecond,
                   exit |-> Null, promise |-> Null])]

\* the callback of the running subprocess fires and settles its promise
Settle(ev, promise) ==
    [procs EXCEPT ![i][Len(procs[i])] =
        [@ EXCEPT !.exit = ev, !.promise = promise]]

Init ==
    /\ items \in Batches
    /\ i = 1
    /\ pc = "loop"
    /\ flags = <<>>
    /\ formatFlag = <<>>
    /\ cmd = <<>>
    /\ resilientCmd = <<>>
    /\ resiliencyTried = FALSE
    /\ err = Null
    /\ scanResult = Null
    /\ parsed = Null
    /\ summary = Null
    /\ outputs = <<>>
    /\ history = <<>>
    /\ procs = [k \in 1..Len(items) |-> <<>>]
    /\ now = 0

\* lines 137-163 and the first call of runNmap (line 193)
Begin ==
    /\ pc = "loop"
    /\ i <= Len(items)
    /\ flags' = DeriveFlags(req)
    /\ formatFlag' = FormatFlag(req.outputFormat)
    /\ cmd' = CommandLine(NmapPath(req), flags', formatFlag', req.target)
    /\ resilientCmd' = <<>>
    /\ resiliencyTried' = FALSE
    /\ err' = Null
    /\ scanResult' = Null
    /\ parsed' = Null
    /\ summary' = Null
    /\ procs' = Spawn(procs, cmd')
    /\ pc' = "first"
    /\ UNCHANGED <<items, i, outputs, history, now>>

\* lines 193-209 and 226-229: the first attempt settles
FirstAttempt ==
    /\ pc = "first"
    /\ \E ev \in ProcEvents :
        LET promise == RunNmap(cmd, req, flags, ev)
            settled == Settle(ev, promise)
        IN IF promise.settled = "resolved"
           THEN /\ scanResult' = promise.value
                /\ procs' = settled
                /\ pc' = "summarize"
                /\ UNCHANGED <<err, resiliencyTried, resilientCmd>>
           ELSE /\ err' = promise.value
                /\ IF ShouldRetry(promise.value, flags)
                   THEN /\ resiliencyTried' = TRUE
                        /\ resilientCmd' =
                             CommandLine(NmapPath(req), ResilientFlags(flags),
                                         formatFlag, req.target)
                        /\ procs' = Spawn(settled, resilientCmd')
                        /\ pc' = "retry"
                        /\ UNCHANGED scanResult
                   ELSE /\ scanResult' = NoRetryResult(promise.value)
                        /\ procs' = settled
                        /\ pc' = "summarize"
                        /\ UNCHANGED <<resiliencyTried, resilientCmd>>
    /\ UNCHANGED <<items, i, flags, formatFlag, cmd, parsed, summary,
                   outputs, history, now>>

\* the retry written as a loop: a retry that fails with an unreachable
\* text is run again
RetryAttempt_loops ==
    /\ pc = "retry"
    /\ \E ev \in RetryEvents :
        LET promise == RunNmap(resilientCmd, req, flags, ev) IN
        IF promise.settled = "rejected" /\ ShouldRetry(promise.value, flags)
        THEN /\ procs' = Spawn(Settle(ev, promise), resilientCmd)
             /\ pc' = "retry"
             /\ UNCHANGED scanResult
        ELSE /\ scanResult' = IF promise.settled = "resolved"
                              THEN RetrySuccess(promise.value, err)
                              ELSE RetryFailure(promise.value, err)
             /\ procs' = Settle(ev, promise)
             /\ pc' = "summarize"
    /\ UNCHANGED <<items, i, flags, formatFlag, cmd, resilientCmd,
                   resiliencyTried, err, parsed, summary, outputs, history,
                   now>>

\* lines 209-225: the retry settles
RetryAttempt ==
    /\ pc = "retry"
    /\ \E ev \in RetryEvents :
        LET promise == RunNmap(resilientCmd, req, flags, ev) IN
        /\ scanResult' = IF promise.settled = "resolved"
                         THEN RetrySuccess(promise.value, err)
                         ELSE RetryFailure(promise.value, err)
        /\ procs' = Settle(ev, promise)
    /\ pc' = "summarize"
    /\ UNCHANGED <<items, i, flags, formatFlag, cmd, resilientCmd,
                   resiliencyTried, err, parsed, summary, outputs, history,
                   now>>

\* lines 232-247
SummaryStep ==
    /\ pc = "summarize"
    /\ IF NeedsSummary(req, scanResult)
       THEN /\ parsed' = Summarize(scanResult.output).parsed
            /\ summary' = Summarize(scanResult.output).summary
       ELSE UNCHANGED <<parsed, summary>>
    /\ pc' = "record"
    /\ UNCHANGED <<items, i, flags, formatFlag, cmd, resilientCmd,
                   resiliencyTried, err, scanResult, outputs, history, procs,
                   now>>

\* line 250 with saveHistory false
SkipHistory ==
    /\ pc = "record"
    /\ ~req.saveHistory
    /\ pc' = "emit"
    /\ UNCHANGED <<items, i, flags, formatFlag, cmd, resilientCmd,
                   resiliencyTried, err, scanResult, parsed, summary, outputs,
                   history, procs, now>>

\* the history file rewritten (writeFileSync) instead of appended to
AppendHistory_overwrites ==
    /\ pc = "record"
    /\ req.saveHistory
    /\ history' =
          << HistoryLine(HistoryObj(now, req, flags, summary, scanResult)) >>
    /\ now' = now + 1
    /\ pc' = "emit"
    /\ UNCHANGED <<items, i, flags, formatFlag, cmd, resilientCmd,
                   resiliencyTried, err, scanResult, parsed, summary, outputs,
                   procs>>

\* lines 250-261: fs.appendFileSync returns
AppendHistory ==
    /\ pc = "record"
    /\ req.saveHistory
    /\ history' = Append(history,
          HistoryLine(HistoryObj(now, req, flags, summary, scanResult)))
    /\ now' = now + 1
    /\ pc' = "emit"
    /\ UNCHANGED <<items, i, flags, formatFlag, cmd, resilientCmd,
                   resiliencyTried, err, scanResult, parsed, summary, outputs,
                   procs>>

\* line 260: fs.appendFileSync throws (file not writable, disk full); the
\* call is outside every try block, so the promise of execute rejects.
AppendHistoryThrows ==
    /\ pc = "record"
    /\ req.saveHistory
    /\ pc' = "threw"
    /\ UNCHANGED <<items, i, flags, formatFlag, cmd, resilientCmd,
                   resiliencyTried, err, scanResult, parsed, summary, outputs,
                   history, procs, now>>

\* the output pushed as soon as the summary is there, before the history
\* append
Emit_beforeRecord ==
    /\ pc \in {"record", "emit"}
    /\ outputs' = Append(outputs,
          [json |-> OutputJson(req, scanResult, parsed, summary)])
    /\ i' = i + 1
    /\ pc' = "loop"
    /\ UNCHANGED <<items, flags, formatFlag, cmd, resilientCmd,
                   resiliencyTried, err, scanResult, parsed, summary, history,
                   procs, now>>

\* lines 263-269 and the loop increment
Emit ==
    /\ pc = "emit"
    /\ outputs' = Append(outputs,
          [json |-> OutputJson(req, scanResult, parsed, summary)])
    /\ i' = i + 1
    /\ pc' = "loop"
    /\ UNCHANGED <<items, flags, formatFlag, cmd, resilientCmd,
                   resiliencyTried, err, scanResult, parsed, summary, history,
                   procs, now>>

\* line 271: return [outputs]
Return ==
    /\ pc = "loop"
    /\ i > Len(items)
    /\ pc' = "done"
    /\ UNCHANGED <<items, i, flags, formatFlag, cmd, resilientCmd,
                   resiliencyTried, err, scanResult, parsed, summary, outputs,
                   history, procs, now>>

Next ==
    \/ Begin
    \/ FirstAttempt
    \/ RetryAttempt
    \/ SummaryStep
    \/ SkipHistory
    \/ AppendHistory
    \/ AppendHistoryThrows
    \/ Emit
    \/ Return

Spec == Init /\ [][Next]_vars

---------------------------------------------------------------------------
\* Properties of the Resiliency Controller.

\* The subprocesses created for item k, in order.
ProcsOf(k) == procs[k]

\* The subprocess whose outcome is final for item k.
LastProc(k) == ProcsOf(k)[Len(ProcsOf(k))]

\* Item k was retried.
Retried(k) == Len(ProcsOf(k)) = 2

\* The items whose output has been emitted.
Emitted == 1..Len(outputs)

\* The items whose last attempt has settled.
Finished == { k \in 1..Len(items) :
                 Len(ProcsOf(k)) >= 1 /\ LastProc(k).exit # Null }

\* A text of the host-unreachable class.
Unreachable(text) ==
    \/ Includes(text, S_0hostsUp)
    \/ Includes(text, S_failedResolve)
    \/ MatchHostDown(text)

\* r agrees with the outcome v on every field of v.
Carries(r, v) == \A f \in DOMAIN v : Has(r, f) /\ r[f] = v[f]

\* C1: execute runs the scanning subprocess at most twice for an item, the
\* first attempt plus at most one retry, whatever the attempts yield.
AtMostTwoAttempts ==
    \A k \in 1..Len(items) : Len(ProcsOf(k)) <= 2

\* An item whose retry failed again with an unreachable text, after which
\* execute went on to the summary.
RetryFailedUnreachableAgain ==
    /\ pc = "summarize"
    /\ Retried(i)
    /\ LastProc(i).promise.settled = "rejected"
    /\ Unreachable(LastProc(i).promise.value.details)

\* C2: a retry is made for an item if and only if its first attempt failed,
\* the detail text of the failure is of the unreachable class, and the
\* item's flags do not contain -Pn.
RetryIffUnreachableWithoutOverride ==
    \A k \in 1..Len(items) :
        (Len(ProcsOf(k)) >= 1 /\ ProcsOf(k)[1].exit # Null) =>
            LET first == ProcsOf(k)[1].promise IN
            Retried(k) <=>
                /\ first.settled = "rejected"
                /\ Unreachable(first.value.details)
                /\ ~Includes(DeriveFlags(items[k]), S_Pn)

\* A failure whose stdout has "0 hosts up" while its detail text does not
\* match: no retry.
StdoutMatchNotRetried ==
    /\ pc = "summarize"
    /\ ~Retried(i)
    /\ LastProc(i).promise.settled = "rejected"
    /\ Includes(LastProc(i).promise.value.stdout, S_0hostsUp)
    /\ ~Includes(DeriveFlags(req), S_Pn)

\* C3: after a retry the final outcome of the item is the outcome of the
\* second attempt, and it carries a resiliency note with triggered = true
\* whose firstError is the failure payload of the first attempt.
RetryOutcomeIsSecondAttempt ==
    /\ \A k \in Emitted :
        Retried(k) =>
            LET out == outputs[k].json IN
            /\ Carries(out, LastProc(k).promise.value)
            /\ out.error = (LastProc(k).promise.settled = "rejected")
            /\ Has(out, "resiliency")
            /\ out.resiliency.triggered = TRUE
            /\ out.resiliency.firstError = ProcsOf(k)[1].promise.value
    /\ (pc \in {"summarize", "record", "emit"} /\ Retried(i)) =>
            /\ Carries(scanResult, LastProc(i).promise.value)
            /\ Has(scanResult, "resiliency")
            /\ scanResult.resiliency.triggered = TRUE
            /\ scanResult.resiliency.firstError = err
            /\ err = ProcsOf(i)[1].promise.value

\* An emitted item whose retry failed with another failure than the first.
RetryFailedDifferently ==
    \E k \in Emitted :
        /\ Retried(k)
        /\ outputs[k].json.error
        /\ outputs[k].json.details # ProcsOf(k)[1].promise.value.details

\* C4: the emitted outcome carries a resiliency note if and only if a retry
\* was made; without a retry it is exactly the first attempt's outcome.
NoteIffRetried ==
    \A k \in Emitted :
        LET out == outputs[k].json IN
        /\ Has(out, "resiliency") <=> Retried(k)
        /\ ~Retried(k) =>
            /\ Carries(out, ProcsOf(k)[1].promise.value)
            /\ DOMAIN out \ {"parsed", "summary"}
                   = DOMAIN ProcsOf(k)[1].promise.value

\* An emitted item that failed with an unreachable text while -Pn was
\* already among its flags.
UnreachableWithOverrideEmitted ==
    \E k \in Emitted :
        /\ ~Retried(k)
        /\ outputs[k].json.error
        /\ Unreachable(outputs[k].json.details)
        /\ Includes(DeriveFlags(items[k]), S_Pn)

\* The flags part of a command line built for request r: what stands
\* between the quoted binary path and the format flag.
FlagsOfCmd(c, r) ==
    SubSeq(c, Len(NmapPath(r)) + 4,
           Len(c) - Len(FormatFlag(r.outputFormat)) - Len(r.target) - 4)

\* C5: the command line of a retry is the command line of the first attempt
\* with " -Pn" inserted after the flags and nothing else changed, so it
\* always contains the override.
RetryCmdAppendsOverride ==
    \A k \in 1..Len(items) :
        Retried(k) =>
            LET c1 == ProcsOf(k)[1].cmd
                c2 == ProcsOf(k)[2].cmd
                cut == Len(NmapPath(items[k])) + 3 + Len(FlagsOfCmd(c1, items[k]))
            IN /\ c2 = SubSeq(c1, 1, cut) \o S_spPn \o SubSeq(c1, cut + 1, Len(c1))
               /\ FlagsOfCmd(c2, items[k]) = FlagsOfCmd(c1, items[k]) \o S_spPn
               /\ Includes(FlagsOfCmd(c2, items[k]), S_Pn)

\* A retry of a request with an XML format flag and derived flags.
RetrySpawnedWithFormatFlag ==
    /\ pc = "retry"
    /\ req.outputFormat = "xml"
    /\ Len(flags) > 0
    /\ Len(ProcsOf(i)) = 2

---------------------------------------------------------------------------
\* Properties of the batch loop.

\* C6: for any batch of n items and any combination of scan and parse
\* outcomes no exception escapes execute, and execute returns exactly n
\* records, the k-th being the outcome of the k-th item.
NoExceptionEscapesExecute ==
    /\ pc # "threw"
    /\ pc = "done" =>
          /\ Len(outputs) = Len(items)
          /\ \A k \in 1..Len(items) :
                Carries(outputs[k].json, LastProc(k).promise.value)

\* What does hold of the batch loop: the scan and parse outcomes never make
\* execute reject.  The one step that can raise is the history append of an
\* item with saveHistory, after the item's scan and parse outcomes have been
\* absorbed; when execute returns, it returns one record per item, in order.
ScanAndParseOutcomesAbsorbed ==
    /\ pc = "threw" =>
          /\ req.saveHistory
          /\ i \in Finished
          /\ scanResult # Null
    /\ Len(outputs) = i - 1
    /\ pc = "done" =>
          /\ Len(outputs) = Len(items)
          /\ Finished = 1..Len(items)
    /\ \A k \in Emitted :
          /\ k \in Finished
          /\ Carries(outputs[k].json, LastProc(k).promise.value)
          /\ ~outputs[k].json.error =>
                outputs[k].json.target = items[k].target
          /\ outputs[k].json.cmd \in
                { CommandLine(NmapPath(items[k]), fl,
                              FormatFlag(items[k].outputFormat),
                              items[k].target) :
                    fl \in { DeriveFlags(items[k]),
                             DeriveFlags(items[k]) \o S_spPn } }

\* C7: if the append to the history sink fails for an item with saveHistory,
\* the item's result is still emitted (and the batch goes on).  pc = "threw"
\* is final: execute has rejected.
HistoryFailureStillEmits ==
    pc = "threw" => Len(outputs) >= i

---------------------------------------------------------------------------
\* Properties of the Process Runner.

FailureFields == {"error", "message", "details", "cmd", "stdout", "stderr"}
SuccessFields == {"error", "target", "cmd", "output", "format", "flags"}

\* C8: each attempt creates exactly one subprocess and settles with exactly
\* one outcome: Success (error:false, output = the captured stdout, with
\* target, cmd, format, flags) if and only if the process exited with status
\* zero before the timeout, otherwise a Failure (error:true) with message,
\* details, the command and the captured stdout and stderr, of the same
\* shape for a timeout, an abnormal termination and a nonzero exit.
OneProcessOneOutcome ==
    /\ \A k \in 1..Len(items) : \A n \in 1..Len(procs[k]) :
        LET proc == procs[k][n] IN
        \* only the newest subprocess can still be running
        /\ proc.exit = Null =>
              /\ k = i
              /\ n = Len(procs[k])
              /\ proc.promise = Null
        /\ proc.exit # Null =>
            LET ev == proc.exit
                v == proc.promise.value
            IN /\ proc.promise.settled = "resolved" <=> ev.kind = "exit0"
               /\ ev.kind = "exit0" =>
                    /\ DOMAIN v = SuccessFields
                    /\ v.error = FALSE
                    /\ v.output = ev.stdout
                    /\ v.target = items[k].target
                    /\ v.cmd = proc.cmd
                    /\ v.format = items[k].outputFormat
               /\ ev.kind # "exit0" =>
                    /\ DOMAIN v = FailureFields
                    /\ v.error = TRUE
                    /\ v.message = S_execFailed
                    /\ v.details \in {ev.stderr, ev.error.message}
                    /\ v.cmd = proc.cmd
                    /\ v.stdout = ev.stdout
                    /\ v.stderr = ev.stderr
    \* one subprocess per attempt: one while the first attempt is awaited,
    \* two while the retry is awaited
    /\ pc = "first" => Len(ProcsOf(i)) = 1 /\ LastProc(i).exit = Null
    /\ pc = "retry" => Len(ProcsOf(i)) = 2 /\ LastProc(i).exit = Null
    /\ pc \in {"summarize", "record", "emit"} =>
          /\ i \in Finished
          /\ Len(ProcsOf(i)) = (IF resiliencyTried THEN 2 ELSE 1)
    /\ \A k \in 1..Len(items) : k > i => Len(ProcsOf(k)) = 0

\* A subprocess that exited with status zero although it wrote a warning to
\* stderr, followed by one that was killed by the timeout.
WarningThenTimeout ==
    /\ Len(items) >= 2
    /\ Len(procs[1]) = 1
    /\ procs[1][1].exit # Null
    /\ procs[1][1].exit.kind = "exit0"
    /\ procs[1][1].exit.stderr # <<>>
    /\ procs[1][1].promise.settled = "resolved"
    /\ Len(procs[2]) = 1
    /\ procs[2][1].exit # Null
    /\ procs[2][1].exit.kind = "timeout"
    /\ procs[2][1].promise.settled = "rejected"

---------------------------------------------------------------------------
\* Properties of the Summary Extractor's place in the pipeline.

\* The payloads that are a well-formed document with a host element.
WellFormedPayloads == {XmlPortList, XmlOnePort, XmlNoPorts}

IsErrorMarker(sum) ==
    DOMAIN sum = {"error", "details"} /\ sum.error = TRUE

IsScanSummary(sum) ==
    DOMAIN sum = {"address", "status", "openPorts", "totalOpen", "vulns"}

\* C9: an emitted record has a scan summary if and only if the final outcome
\* is a Success, the format is xml, smartResult was requested and the
\* payload parsed (and reduced) without structural error; otherwise the
\* summary key is absent or holds an error marker {error, details}, never a
\* summary together with an error marker.  A failed outcome and a text or
\* grep format never carry a summary key.
SummaryIffParsedXmlSuccess ==
    \A k \in Emitted :
        LET out == outputs[k].json IN
        /\ (Has(out, "summary") /\ IsScanSummary(out.summary)) <=>
              /\ ~out.error
              /\ items[k].outputFormat = "xml"
              /\ items[k].smartResult
              /\ out.output \in WellFormedPayloads
        /\ Has(out, "summary") =>
              \/ IsScanSummary(out.summary)
              \/ IsErrorMarker(out.summary)
        /\ (out.error \/ items[k].outputFormat # "xml") => ~Has(out, "summary")

\* A text-format item whose stdout is a well-formed document was emitted
\* without summary, and an xml item was emitted with one.
SummaryOnlyForXml ==
    /\ \E k \in Emitted :
          /\ items[k].outputFormat = "text"
          /\ items[k].smartResult
          /\ ~outputs[k].json.error
          /\ outputs[k].json.output \in WellFormedPayloads
          /\ ~Has(outputs[k].json, "summary")
    /\ \E k \in Emitted :
          /\ Has(outputs[k].json, "summary")
          /\ IsScanSummary(outputs[k].json.summary)

\* C10: a failure to parse or reduce the payload does not abort the item and
\* does not alter the scan outcome: the record is emitted with the outcome's
\* fields unchanged (error:false, target, cmd, output, format, flags, and the
\* resiliency note of a retried item), only the summary is an error marker.
ParseFailureDegradesSummaryOnly ==
    /\ \A k \in Emitted :
        LET out == outputs[k].json
            v == LastProc(k).promise.value
        IN (/\ LastProc(k).promise.settled = "resolved"
            /\ items[k].outputFormat = "xml"
            /\ items[k].smartResult
            /\ v.output \notin WellFormedPayloads) =>
               /\ Has(out, "summary")
               /\ IsErrorMarker(out.summary)
               /\ out.error = FALSE
               /\ Carries(out, v)
               /\ DOMAIN out \ {"parsed", "summary", "resiliency"} = DOMAIN v
               /\ Has(out, "resiliency") <=> Retried(k)
    \* the item goes on to the record step with its outcome untouched
    /\ (pc = "record" /\ summary # Null /\ Has(summary, "error")) =>
          /\ scanResult.error = FALSE
          /\ Carries(scanResult, LastProc(i).promise.value)

\* An emitted record of a retried item whose payload was cut off: the
\* outcome with its resiliency note, and an error marker as summary.
TruncatedPayloadEmitted ==
    \E k \in Emitted :
        /\ Retried(k)
        /\ ~outputs[k].json.error
        /\ outputs[k].json.output = XmlTruncated
        /\ Has(outputs[k].json, "summary")
        /\ IsErrorMarker(outputs[k].json.summary)

---------------------------------------------------------------------------
\* Properties of the order of the steps and of the History Recorder.

\* The number of items among the first k that ask for a history record.
RECURSIVE SavedUpTo(_)
SavedUpTo(k) ==
    IF k = 0 THEN 0
    ELSE SavedUpTo(k - 1) + (IF items[k].saveHistory THEN 1 ELSE 0)

\* C11: items are processed one after the other and each item's steps run
\* in the order run -> (retry) -> summarize -> record -> emit: no subprocess
\* of a later item exists before the item's last attempt has settled, its
\* history record (if asked for) is appended and its output is emitted; the
\* history record is appended after the last attempt has settled and before
\* the output is emitted.
SequentialPipeline ==
    \* a subprocess exists only for the items up to the current one
    /\ \A k \in 1..Len(items) : Len(procs[k]) > 0 => k <= i
    \* the items before the current one are finished, recorded and emitted
    /\ \A k \in 1..Len(items) :
          k < i => /\ k \in Finished
                   /\ k \in Emitted
                   /\ Len(history) >= SavedUpTo(k)
    /\ Len(outputs) = i - 1
    \* while an attempt is awaited nothing of the item is summarized,
    \* recorded or emitted
    /\ pc \in {"first", "retry"} =>
          /\ LastProc(i).exit = Null
          /\ parsed = Null /\ summary = Null
          /\ Len(history) = SavedUpTo(i - 1)
    /\ pc \in {"summarize", "record"} =>
          /\ i \in Finished
          /\ Len(history) = SavedUpTo(i - 1)
    \* the record is in the sink when the output is about to be pushed
    /\ pc = "emit" =>
          /\ i \in Finished
          /\ Len(history) = SavedUpTo(i)
    /\ pc \in {"loop", "done"} => Len(history) = SavedUpTo(i - 1)

\* The subprocess of the second item is running after the first item was
\* retried, recorded and emitted.
SecondItemStartedAfterFirstEmitted ==
    /\ pc = "first"
    /\ i = 2
    /\ Retried(1)
    /\ items[1].saveHistory
    /\ Len(history) = 1
    /\ Len(outputs) = 1

\* C12: the history sink is append-only with one record per item: an item
\* with saveHistory appends exactly one line (per item, not per attempt,
\* whether it succeeded, failed or was retried), an item without appends
\* nothing, and the lines in the sink are never modified, removed or
\* reordered.
HistoryAppendOnly ==
    [][ /\ Len(history') >= Len(history)
        /\ SubSeq(history', 1, Len(history)) = history
        /\ Len(history') <= Len(history) + 1
        /\ (pc = "emit" /\ pc' = "loop") =>
              /\ Len(history) = SavedUpTo(i)
              /\ req.saveHistory => history[Len(history)].json[2].value = req.target
        /\ (pc = "record" /\ pc' = "emit") =>
              Len(history') = Len(history) + (IF req.saveHistory THEN 1 ELSE 0)
        /\ (pc # "record") => history' = history ]_vars

\* A batch of a retried item with saveHistory and an item without has
\* returned: two attempts and two items, one line.
OneLinePerSavingItem ==
    /\ Len(items) = 2
    /\ pc = "done"
    /\ items[1].saveHistory /\ ~items[2].saveHistory
    /\ Retried(1)
    /\ Len(history) = 1

\* Reading a line of the sink back: the object JSON.parse builds from the
\* members written on the line.
RECURSIVE FromMembers(_)
FromMembers(members) ==
    IF Len(members) = 0 THEN <<>>
    ELSE IF Len(members) = 1
    THEN [f \in {members[1].key} |-> members[1].value]
    ELSE [f \in {members[1].key} |-> members[1].value]
            @@ FromMembers(Tail(members))

JsonParse(line) == FromMembers(line.json)

\* The line of the sink written for item k (an item with saveHistory).
LineOf(k) == history[SavedUpTo(k)]

\* C13: the history record of an item, read back from the sink, reproduces
\* the item's target, flags and format; its failure field is present if and
\* only if the final outcome is a Failure and then equals it; its resiliency
\* field is present if and only if a retry occurred and then equals the
\* emitted note; its summary equals the emitted summary, null when none was
\* computed.
HistoryRecordLossless ==
    \A k \in Emitted :
        items[k].saveHistory =>
            LET rec == JsonParse(LineOf(k))
                out == outputs[k].json
            IN /\ LineOf(k).eol = "\n"
               /\ Has(rec, "timestamp")
               /\ rec.target = items[k].target
               /\ rec.flags = DeriveFlags(items[k])
               /\ rec.format = items[k].outputFormat
               /\ Has(rec, "error") <=> out.error
               /\ Has(rec, "error") =>
                     /\ rec.error = out
                     /\ Carries(rec.error, LastProc(k).promise.value)
               /\ Has(rec, "resiliency") <=> Retried(k)
               /\ Has(rec, "resiliency") => rec.resiliency = out.resiliency
               /\ Has(rec, "summary")
               /\ rec.summary = (IF Has(out, "summary") THEN out.summary
                                 ELSE Null)

\* The records of a retried item that failed again and of an item with a
\* scan summary are in the sink.
FailureAndSummaryRecorded ==
    /\ Len(outputs) = 2
    /\ items[1].saveHistory /\ items[2].saveHistory
    /\ Retried(1)
    /\ outputs[1].json.error
    /\ Has(outputs[2].json, "summary")
    /\ IsScanSummary(outputs[2].json.summary)

---------------------------------------------------------------------------
\* Properties of the Flag Deriver and the Command Builder.

KnownModes == {"fast", "full", "version", "os", "nse", "custom"}

\* The names separated by commas, built from the last name backwards.
RECURSIVE CommaSeparated(_)
CommaSeparated(names) ==
    IF Len(names) = 0 THEN <<>>
    ELSE IF Len(names) = 1 THEN names[1]
    ELSE CommaSeparated(SubSeq(names, 1, Len(names) - 1))
            \o <<",">> \o names[Len(names)]

\* The flags the table of the scan modes gives for a request.
TableFlags(r) ==
    CASE r.scanMode = "fast" -> <<"-", "T", "4", " ", "-", "F">>
      [] r.scanMode = "full" ->
            <<"-", "T", "4", " ", "-", "p", "1", "-", "6", "5", "5", "3", "5">>
      [] r.scanMode = "version" -> <<"-", "s", "V">>
      [] r.scanMode = "os" -> <<"-", "O">>
      [] r.scanMode = "custom" -> r.flags
      [] r.scanMode = "nse" ->
            IF r.nseScripts = <<>> THEN <<>>
            ELSE <<"-", "-", "s", "c", "r", "i", "p", "t", " ">>
                    \o CommaSeparated(r.nseScripts)

\* The format flag that matches an output format.
TableFormatFlag(r) ==
    CASE r.outputFormat = "xml" -> <<"-", "o", "X", " ", "-">>
      [] r.outputFormat = "grep" -> <<"-", "o", "G", " ", "-">>
      [] r.outputFormat = "text" -> <<>>

\* C14: the command line of the first attempt is a function of the request
\* alone: the quoted binary path, the flags of the scan mode (custom: the
\* user's string unchanged, also when empty; nse: --script and the
\* comma-joined names, nothing for an empty list), the format flag matching
\* the output format (none for text), the quoted target.
FirstCmdFromRequest ==
    \A k \in 1..Len(items) :
        (Len(procs[k]) >= 1 /\ items[k].scanMode \in KnownModes) =>
            LET r == items[k]
                binary == IF r.nmapPath = <<>> THEN <<"n", "m", "a", "p">>
                          ELSE r.nmapPath
            IN /\ procs[k][1].cmd =
                    <<"\"">> \o binary \o <<"\"">> \o <<" ">>
                        \o TableFlags(r) \o <<" ">>
                        \o TableFormatFlag(r) \o <<" ">>
                        \o <<"\"">> \o r.target \o <<"\"">>
               /\ r.scanMode = "nse" /\ r.nseScripts = <<>> =>
                    ~Includes(procs[k][1].cmd, <<"-", "-", "s", "c", "r">>)

\* The subprocesses of a custom request with an empty flag string and of an
\* nse request with an empty script list have been created.
EmptyFlagsCommandsBuilt ==
    /\ Len(items) = 2
    /\ items[1].scanMode = "custom" /\ items[1].flags = <<>>
    /\ items[2].scanMode = "nse" /\ items[2].nseScripts = <<>>
    /\ Len(procs[2]) >= 1

\* C15: an unknown scan mode is a fatal configuration error: no scanning
\* subprocess is run for a request whose scan mode is not one of the six.
UnknownModeNeverScans ==
    \A k \in 1..Len(items) :
        items[k].scanMode \notin KnownModes => Len(procs[k]) = 0

\* C19: the flags reported for an item are the flags of the command that
\* produced its final outcome: in every emitted Success and in every history
\* record, the flags field is the flag string in the cmd of the final
\* attempt, also after a retry, when that command carries -Pn.
ReportedFlagsAreCmdFlags ==
    \A k \in Emitted :
        LET out == outputs[k].json IN
        /\ ~out.error => out.flags = FlagsOfCmd(out.cmd, items[k])
        /\ items[k].saveHistory =>
              JsonParse(LineOf(k)).flags = FlagsOfCmd(out.cmd, items[k])

---------------------------------------------------------------------------
\* makeSummary as a function of its argument (lines 277-321): the documents
\* are the host trees nmap prints for up to MaxPorts scanned ports, where
\* xml2js (explicitArray:false) gives no `port` for none, the element for
\* one and an array for two or more.

MaxPorts == 3

PortDns ==
    [attr |-> [protocol |-> "udp", portid |-> "53"],
     state |-> [attr |-> [state |-> "open"]],
     service |-> [attr |-> [name |-> "domain", extrainfo |-> "recursion"]]]

PortSmtp ==
    [attr |-> [protocol |-> "tcp", portid |-> "25"],
     state |-> [attr |-> [state |-> "filtered"]]]

PortMysql ==
    [attr |-> [protocol |-> "tcp", portid |-> "3306"],
     state |-> [attr |-> [state |-> "open"]],
     service |-> [attr |-> [name |-> "mysql", product |-> "MySQL",
                            version |-> "8.0", extrainfo |-> "unauthorized"]],
     script |-> [array |->
        << [attr |-> [id |-> "mysql-info", output |-> "Protocol: 10"]],
           [attr |-> [id |-> "vulners", output |-> "CVE-2021-2307"]] >>]]

PortVariants == {PortSsh, PortHttp, PortHttps, PortDns, PortSmtp, PortMysql}

\* two or more distinct <port> elements, in any order
PortArrays ==
    {ps \in UNION {[1..n -> PortVariants] : n \in 2..MaxPorts} :
        \A a, b \in DOMAIN ps : a # b => ps[a] # ps[b]}

Documents ==
    {DocNoPorts}
    \cup {[nmaprun |-> [host |-> HostOf([port |-> p])]] : p \in PortVariants}
    \cup {[nmaprun |-> [host |-> HostOf([port |-> [array |-> ps]])]] :
             ps \in PortArrays}

\* the argument of a call of makeSummary
SummaryInit ==
    /\ parsed \in Documents
    /\ pc = "call"
    /\ summary = Null
    /\ items = <<>>
    /\ i = 1
    /\ flags = <<>>
    /\ formatFlag = <<>>
    /\ cmd = <<>>
    /\ resilientCmd = <<>>
    /\ resiliencyTried = FALSE
    /\ err = Null
    /\ scanResult = Null
    /\ outputs = <<>>
    /\ history = <<>>
    /\ procs = <<>>
    /\ now = 0

\* the call of line 242
CallMakeSummary ==
    /\ pc = "call"
    /\ summary' = makeSummary(parsed)
    /\ pc' = "returned"
    /\ UNCHANGED <<items, i, flags, formatFlag, cmd, resilientCmd,
                   resiliencyTried, err, scanResult, parsed, outputs,
                   history, procs, now>>

SummaryNext == CallMakeSummary

SummarySpec == SummaryInit /\ [][SummaryNext]_vars

\* The <port> elements of a document, in document order.
PortRecords(doc) ==
    LET host == doc.nmaprun.host IN
    IF ~Has(host.ports, "port") THEN <<>>
    ELSE IF Has(host.ports.port, "array") THEN host.ports.port.array
    ELSE <<host.ports.port>>

StateIsOpen(p) == p.state.attr.state = "open"

OpenRecords(doc) == SelectSeq(PortRecords(doc), StateIsOpen)

\* an attribute of the <service> child, the empty string when absent
ServiceField(p, name) ==
    IF Has(p, "service") /\ Has(p.service.attr, name)
    THEN p.service.attr[name] ELSE ""

\* C16: for a document without ports, with one port record or with a list
\* of port records, makeSummary returns no error; openPorts holds exactly
\* the records whose state is "open", in document order, each with its port
\* id and with service, product, version and extra defaulting to the empty
\* string; totalOpen is the length of openPorts.
OpenPortsAreTheOpenRecords ==
    pc = "returned" =>
        LET open == OpenRecords(parsed) IN
        /\ ~Has(summary, "error")
        /\ summary.totalOpen = Len(summary.openPorts)
        /\ Len(summary.openPorts) = Len(open)
        /\ \A k \in 1..Len(open) :
               summary.openPorts[k] =
                   [port |-> open[k].attr.portid,
                    service |-> ServiceField(open[k], "name"),
                    product |-> ServiceField(open[k], "product"),
                    version |-> ServiceField(open[k], "version"),
                    extra |-> ServiceField(open[k], "extrainfo")]

\* C16 witness: a list with a filtered port between two open ones was
\* summarised as the two open ports, in document order.
OpenPortsFilteredInOrder ==
    /\ pc = "returned"
    /\ PortRecords(parsed) = <<PortMysql, PortSmtp, PortDns>>
    /\ summary.totalOpen = 2
    /\ summary.openPorts[1].port = "3306"
    /\ summary.openPorts[2].extra = "recursion"

\* The script-result elements of a port, in document order.
ScriptRecords(p) ==
    IF ~Has(p, "script") THEN <<>>
    ELSE IF Has(p.script, "array") THEN p.script.array
    ELSE <<p.script>>

Finding(p, s) ==
    [port |-> p.attr.portid, script |-> s.attr.id, output |-> s.attr.output]

\* the findings of the first n of the ports `open`, by port then by script
RECURSIVE FindingsUpTo(_, _)
FindingsUpTo(open, n) ==
    IF n = 0 THEN <<>>
    ELSE FindingsUpTo(open, n - 1)
         \o [k \in 1..Len(ScriptRecords(open[n])) |->
                Finding(open[n], ScriptRecords(open[n])[k])]

\* C17: the script findings are exactly one entry {port, script id, output}
\* for every script-result element of an open port, single or listed,
\* ordered by port and then by script; other ports contribute nothing.
FindingsAreOpenPortScripts ==
    pc = "returned" =>
        /\ summary.vulns =
               FindingsUpTo(OpenRecords(parsed), Len(OpenRecords(parsed)))
        /\ \A k \in 1..Len(summary.vulns) :
               \E p \in 1..Len(PortRecords(parsed)) :
                   /\ StateIsOpen(PortRecords(parsed)[p])
                   /\ PortRecords(parsed)[p].attr.portid = summary.vulns[k].port

\* C17 witness: an open port with one script record, a closed port with a
\* script and an open port with two listed scripts gave three findings.
FindingsFromSingleAndListedScripts ==
    /\ pc = "returned"
    /\ parsed = DocPortList
    /\ summary.vulns =
           << [port |-> "22", script |-> "ssh-hostkey", output |-> "2048 aa:bb"],
              [port |-> "443", script |-> "http-title", output |-> "Login"],
              [port |-> "443", script |-> "ssl-heartbleed",
               output |-> "VULNERABLE"] >>

---------------------------------------------------------------------------
\* Progress.  Every await of execute is on a subprocess that exits or is
\* killed by the timeout (line 167) or on a parse that returns, and the
\* synchronous steps between them run to completion: an enabled step of
\* the pipeline is eventually taken.
FairSpec == Spec /\ WF_vars(Next)

\* execute settles: it returns or it throws
ExecuteSettles == <>(pc \in {"done", "threw"})

\* C18: execute terminates for every batch with every item emitted: the
\* batch eventually returns, and then holds one output per input item.
BatchReturnsWithAllItemsEmitted ==
    <>(pc = "done" /\ Len(outputs) = Len(items))
=============================================================================
